---- MODULE Spec2Model ----
(***************************************************************************)
(* Session lifecycle of incuera: staged (Redis) buffering of a session,    *)
(* its promotion to a durable Session row by POST /api/sessions/end, event *)
(* ingestion by POST /api/ingest, and the render job of the ARQ worker.    *)
(*                                                                         *)
(* Request handlers run in several worker processes, so every round trip   *)
(* to Redis or to the database is one atomic step and the steps of         *)
(* different requests interleave freely.  A database transaction is        *)
(* modelled at its commit (READ COMMITTED: a query sees what is committed).*)
(***************************************************************************)
EXTENDS Integers, Sequences, FiniteSets, TLC

\* ------------------------------------------------------------------ bounds
NumFinalize == 2      \* concurrent POST /sessions/end requests
NumIngest == 2        \* concurrent POST /ingest requests
MaxStarts == 2        \* POST /sessions/start requests
MaxBatch == 2         \* events per ingest request
MaxEvents == 2        \* events the client sends in total
NumJobs == 2          \* render jobs the worker runs at once (max_jobs is 5)
NumRegens == 1        \* POST /regenerate-video requests
NumSweeps == 2        \* runs of the cleanup_stale_sessions cron job

\* ------------------------------------------------------- program constants
MinDurationSeconds == 30
MsPerSecond == 1000
StaleMs == 300000     \* timedelta(minutes=5), in ms
MaxTries == 3         \* WorkerSettings.max_tries
PendingSessionTtl == 600  \* PENDING_SESSION_TTL, in seconds

\* ------------------------------------------------------------ input domains
Tokens == {"s1"}
Projects == {"p1", "p2"}
\* metadata.timestamp of /sessions/start (ms); 0 is "no start time"
StartTimestamps == {0, 500}
\* request.timestamp of /sessions/end (ms): 29.999 s and 35.9 s after 500
EndTimestamps == {30499, 36400}
\* request.finalEventCount
FinalEventCounts == {2}
\* started_at (ms) of a Session row written by the eager path, before staging:
\* 24.099 s and exactly 30 s before the end timestamps
LegacyStartTimes == {6400}
\* readings of the servers' clock (ms): 10 s, 3 min 20 s, 6 min 40 s
ClockTimes == {10000, 200000, 400000}

FinIds == 1..NumFinalize
IngIds == 1..NumIngest
JobIds == 1..NumJobs
RegenIds == 1..NumRegens

\* SessionStatus
ACTIVE == "active"
COMPLETED == "completed"
PROCESSING == "processing"
READY == "ready"
FAILED == "failed"

NoRow == 0            \* query(...).first() returned None
NoPending == [project_id |-> "none", timestamp |-> -1, ttl |-> 0]
NULL == -1            \* a nullable integer column that is not set

VARIABLES
    tenants,        \* projects that hold an API key
    sessions,       \* table sessions: sequence of rows, a row's index is its id
    events,         \* table events: sequence of rows in insertion order
    pending,        \* Redis pending_session:{token}
    pendingEvents,  \* Redis list pending_events:{token}
    lock,           \* Redis session_end_processing:{token}
    queue,          \* ARQ queue: tokens of the enqueued generate_session_video jobs
    starts,         \* number of /sessions/start requests served
    sent,           \* number of events the client has sent
    fin,            \* the /sessions/end requests
    ing,            \* the /ingest requests
    job,            \* the worker's generate_session_video executions
    regen,          \* the /regenerate-video requests
    now,            \* the servers' clock (ms)
    sweep,          \* the worker's cleanup_stale_sessions execution
    idle            \* seconds since the client's last request for the token

vars == <<tenants, sessions, events, pending, pendingEvents, lock, queue,
          starts, sent, fin, ing, job, regen, now, sweep, idle>>

\* ------------------------------------------------------------------ helpers
\* int(x / d) of Python for an integer numerator: truncation toward zero
IntTrunc(n, d) == IF n >= 0 THEN n \div d ELSE -((-n) \div d)

\* db.query(SessionModel).filter(session_id == tok, project_id == proj).first()
FindSession(tok, proj) ==
    IF \E k \in 1..Len(sessions) :
            sessions[k].session_id = tok /\ sessions[k].project_id = proj
    THEN CHOOSE k \in 1..Len(sessions) :
            sessions[k].session_id = tok /\ sessions[k].project_id = proj
    ELSE NoRow

\* mutant: the column is not unique
UniqueViolationOff(tok) == FALSE

\* Column(String, unique=True) on sessions.session_id: an INSERT of tok is
\* refused with IntegrityError when any row already has this session_id
UniqueViolation(tok) ==
    \E k \in 1..Len(sessions) : sessions[k].session_id = tok

\* rows of table events that belong to session row k, in insertion order
EventsOf(k) == SelectSeq(events, LAMBDA e : e.session = k)

NewSession(tok, proj, started, dur, cnt) ==
    [session_id |-> tok, project_id |-> proj, status |-> COMPLETED,
     started_at |-> started, duration |-> dur, event_count |-> cnt,
     video_url |-> FALSE, video_thumbnail_url |-> FALSE, keyframes_url |-> FALSE]

LegacySession(tok, proj, started) ==
    [session_id |-> tok, project_id |-> proj, status |-> ACTIVE,
     started_at |-> started, duration |-> NULL, event_count |-> 0,
     video_url |-> FALSE, video_thumbnail_url |-> FALSE, keyframes_url |-> FALSE]

\* Event rows of a batch: sequence_number = first + idx (enumerate)
EventRows(k, batch, first) ==
    [idx \in 1..Len(batch) |->
        [session |-> k, event_data |-> batch[idx], sequence_number |-> first + idx - 1,
         created_at |-> now]]

SweepIdle == [pc |-> "idle", now |-> 0, stale |-> <<>>, idx |-> 0, runs |-> 0,
              processed |-> 0, queued_for_video |-> 0]

FinIdle == [pc |-> "idle", project |-> "none", token |-> "none", ts |-> 0, fec |-> 0,
            pend |-> NoPending, pevents |-> <<>>, sess |-> NoRow,
            resp |-> "none", queued |-> FALSE]

IngIdle == [pc |-> "idle", project |-> "none", token |-> "none", batch |-> <<>>,
            sess |-> NoRow, count |-> 0, first |-> 0, pushed |-> 0,
            resp |-> "none", received |-> 0, finalized |-> FALSE]

NoUrls == [video_url |-> FALSE, video_thumbnail_url |-> FALSE, keyframes_url |-> FALSE]

JobIdle == [pc |-> "idle", token |-> "none", sess |-> NoRow, loaded |-> "none",
            lurls |-> NoUrls,
            nev |-> 0, thumb |-> FALSE, video_url |-> FALSE, thumb_url |-> FALSE,
            upload_success |-> TRUE, result |-> "none", job_try |-> 0]

RegenIdle == [pc |-> "idle", token |-> "none", sess |-> NoRow, loaded |-> "none",
              lurls |-> NoUrls,
              resp |-> "none"]

\* --------------------------------------------------------------------- Init
Init ==
    /\ tenants = {"p1"}
    /\ sessions \in {<<>>} \cup {<<LegacySession("s1", "p1", t)>> : t \in LegacyStartTimes}
    /\ events = <<>>
    /\ pending = [t \in Tokens |-> NoPending]
    /\ pendingEvents = [t \in Tokens |-> <<>>]
    /\ lock = [t \in Tokens |-> FALSE]
    /\ queue = <<>>
    /\ starts = 0
    /\ sent = 0
    /\ fin = [f \in FinIds |-> FinIdle]
    /\ ing = [i \in IngIds |-> IngIdle]
    /\ job = [j \in JobIds |-> JobIdle]
    /\ regen = [r \in RegenIds |-> RegenIdle]
    /\ now = 10000
    /\ idle = 0
    /\ sweep = SweepIdle

\* ------------------------------------------------- POST /api/sessions/start
\* mutant: the key is written without expiry
PendingRecordNoTtl(proj, ts) == [project_id |-> proj, timestamp |-> ts, ttl |-> 0]

\* the value and the expiry of SETEX pending_session:{token}
PendingRecord(proj, ts) ==
    [project_id |-> proj, timestamp |-> ts, ttl |-> PendingSessionTtl]

\* store_pending_session: SETEX pending_session:{token}; the database is not
\* touched
StartSession(tok, proj, ts) ==
    /\ starts < MaxStarts
    /\ starts' = starts + 1
    /\ pending' = [pending EXCEPT ![tok] = PendingRecord(proj, ts)]
    /\ idle' = 0
    /\ UNCHANGED <<now, sweep, tenants, sessions, events, pendingEvents, lock, queue, sent, fin, ing, job, regen>>

\* --------------------------------------------------- POST /api/sessions/end
\* mutant: no status counts as already finalized
FinalizedStatusesNone == {}

FinalizedStatuses == {COMPLETED, PROCESSING, READY}

\* mutant: a missing start timestamp passes the test
HasStartTimeAlways(start) == TRUE

\* start_timestamp > 0 and (end - start) / 1000 >= 30
HasStartTime(start) == start > 0
\* mutant: the minimum-duration test always passes
LongEnoughAlways(start, end) == TRUE

LongEnough(start, end) == (end - start) >= MinDurationSeconds * MsPerSecond
\* int(duration_seconds)
\* mutant: the duration is stored in milliseconds
DurationSecondsMs(start, end) == end - start

DurationSeconds(start, end) == IntTrunc(end - start, MsPerSecond)

FinSet(f, r) == fin' = [fin EXCEPT ![f] = r]
FinDone(f, tok, msg, q) ==
    FinSet(f, [FinIdle EXCEPT !.pc = "done", !.token = tok, !.resp = msg, !.queued = q])

\* the first query and the dispatch on its result
FinQuery(f, tok, proj, ts, fec) ==
    /\ fin[f].pc = "idle"
    /\ \A g \in FinIds : g < f => fin[g].pc # "idle"   \* numbered by arrival
    /\ LET k == FindSession(tok, proj) IN
        IF k # NoRow /\ sessions[k].status \in FinalizedStatuses
        THEN \* duplicate request
             FinDone(f, tok, "already_ended",
                     sessions[k].status # COMPLETED \/ sessions[k].video_url)
        ELSE IF k = NoRow
        THEN FinSet(f, [FinIdle EXCEPT !.pc = "lock", !.project = proj,
                                       !.token = tok, !.ts = ts])
        ELSE IF sessions[k].status = ACTIVE
        THEN FinSet(f, [FinIdle EXCEPT !.pc = "legacy_commit", !.project = proj,
                                       !.token = tok, !.ts = ts, !.fec = fec,
                                       !.sess = k])
        ELSE FinDone(f, tok, "other_status", FALSE)
    /\ idle' = 0
    /\ UNCHANGED <<now, sweep, tenants, sessions, events, pending, pendingEvents, lock, queue,
                   starts, sent, ing, job, regen>>

\* mutant: the lock is granted although the key is set
LockFreeAlways(tok) == TRUE

\* acquire_session_end_lock: SET key "1" NX EX 30
LockFree(tok) == ~lock[tok]

FinAcquire(f) ==
    /\ fin[f].pc = "lock"
    /\ IF LockFree(fin[f].token)
       THEN /\ lock' = [lock EXCEPT ![fin[f].token] = TRUE]
            /\ FinSet(f, [fin[f] EXCEPT !.pc = "get_pending"])
       ELSE /\ FinDone(f, fin[f].token, "being_processed", FALSE)
            /\ UNCHANGED lock
    /\ UNCHANGED <<now, sweep, idle, tenants, sessions, events, pending, pendingEvents, queue,
                   starts, sent, ing, job, regen>>

\* get_pending_session
FinGetPending(f) ==
    /\ fin[f].pc = "get_pending"
    /\ LET p == pending[fin[f].token] IN
        IF p = NoPending
        THEN FinSet(f, [fin[f] EXCEPT !.pc = "no_data_cleanup"])
        ELSE FinSet(f, [fin[f] EXCEPT !.pc = "get_events", !.pend = p])
    /\ UNCHANGED <<now, sweep, idle, tenants, sessions, events, pending, pendingEvents, lock, queue,
                   starts, sent, ing, job, regen>>

\* no pending metadata: delete_pending_events, then return
FinNoData(f) ==
    /\ fin[f].pc = "no_data_cleanup"
    /\ pendingEvents' = [pendingEvents EXCEPT ![fin[f].token] = <<>>]
    /\ FinSet(f, [fin[f] EXCEPT !.pc = "release", !.resp = "no_data"])
    /\ UNCHANGED <<now, sweep, idle, tenants, sessions, events, pending, lock, queue, starts, sent, ing, job, regen>>

\* get_pending_events, then the duration test
FinGetEvents(f) ==
    /\ fin[f].pc = "get_events"
    /\ LET start == fin[f].pend.timestamp
           next == IF ~HasStartTime(start) THEN "discard_nostart"
                   ELSE IF LongEnough(start, fin[f].ts) THEN "recheck"
                   ELSE "discard_short"
       IN FinSet(f, [fin[f] EXCEPT !.pc = next,
                                   !.pevents = pendingEvents[fin[f].token]])
    /\ UNCHANGED <<now, sweep, idle, tenants, sessions, events, pending, pendingEvents, lock, queue,
                   starts, sent, ing, job, regen>>

\* delete_pending_session of the discard branches
FinDiscardMeta(f) ==
    /\ fin[f].pc \in {"discard_short", "discard_nostart"}
    /\ pending' = [pending EXCEPT ![fin[f].token] = NoPending]
    /\ FinSet(f, [fin[f] EXCEPT !.pc = IF fin[f].pc = "discard_short"
                                       THEN "discard_short_events"
                                       ELSE "discard_nostart_events"])
    /\ UNCHANGED <<now, sweep, idle, tenants, sessions, events, pendingEvents, lock, queue,
                   starts, sent, ing, job, regen>>

\* delete_pending_events of the discard branches
FinDiscardEvents(f) ==
    /\ fin[f].pc \in {"discard_short_events", "discard_nostart_events"}
    /\ pendingEvents' = [pendingEvents EXCEPT ![fin[f].token] = <<>>]
    /\ FinSet(f, [fin[f] EXCEPT !.pc = "release",
                                !.resp = IF fin[f].pc = "discard_short_events"
                                         THEN "discarded_short"
                                         ELSE "no_start_time"])
    /\ UNCHANGED <<now, sweep, idle, tenants, sessions, events, pending, lock, queue, starts, sent, ing, job, regen>>

\* double check under the lock
FinRecheck(f) ==
    /\ fin[f].pc = "recheck"
    /\ LET k == FindSession(fin[f].token, fin[f].project) IN
        IF k # NoRow
        THEN FinSet(f, [fin[f] EXCEPT !.pc = "update_commit", !.sess = k])
        ELSE FinSet(f, [fin[f] EXCEPT !.pc = "insert"])
    /\ UNCHANGED <<now, sweep, idle, tenants, sessions, events, pending, pendingEvents, lock, queue,
                   starts, sent, ing, job, regen>>

\* the fields the "session already exists - update it" branches write
UpdateExisting(row, dur, cnt) ==
    [row EXCEPT !.duration = dur, !.event_count = cnt, !.status = COMPLETED]

FinUpdateCommit(f) ==
    /\ fin[f].pc = "update_commit"
    /\ sessions' = [sessions EXCEPT ![fin[f].sess] =
            UpdateExisting(@, DurationSeconds(fin[f].pend.timestamp, fin[f].ts),
                           Len(fin[f].pevents))]
    /\ FinSet(f, [fin[f] EXCEPT !.pc = "cleanup_meta", !.resp = "updated"])
    /\ UNCHANGED <<now, sweep, idle, tenants, events, pending, pendingEvents, lock, queue,
                   starts, sent, ing, job, regen>>

\* db.add(session); flush; bulk_save_objects(events); commit -- one transaction.
\* On IntegrityError: rollback, then the duplicate-key fallback.
\* mutant: the IntegrityError is not recognised as a duplicate key
IsDuplicateNever(exc) == FALSE

\* is_duplicate: isinstance(e, IntegrityError) or pgcode 23505
IsDuplicate(exc) == exc \in {"IntegrityError", "pgcode23505"}

\* mutant: the new row is not durable when the request goes on to enqueue
CommitSessionLost(ss, row) == ss

\* db.add(session) ... db.commit(): the row is durable before the cleanup and
\* the enqueue that follow the try block
CommitSession(ss, row) == Append(ss, row)

FinInsert(f) ==
    /\ fin[f].pc = "insert"
    /\ IF UniqueViolation(fin[f].token)
       THEN /\ IF IsDuplicate("IntegrityError")
               THEN FinSet(f, [fin[f] EXCEPT !.pc = "fallback_query"])
               ELSE FinSet(f, [fin[f] EXCEPT !.pc = "release", !.resp = "error500"])
            /\ UNCHANGED <<now, sweep, idle, sessions, events>>
       ELSE /\ sessions' = CommitSession(sessions,
                    NewSession(fin[f].token, fin[f].project, fin[f].pend.timestamp,
                               DurationSeconds(fin[f].pend.timestamp, fin[f].ts),
                               Len(fin[f].pevents)))
            /\ events' = events \o EventRows(Len(sessions) + 1, fin[f].pevents, 0)
            /\ FinSet(f, [fin[f] EXCEPT !.pc = "cleanup_meta", !.resp = "created"])
    /\ UNCHANGED <<now, sweep, idle, tenants, pending, pendingEvents, lock, queue, starts, sent, ing, job, regen>>

\* is_duplicate: query again; if the row is not visible to this project, re-raise
FinFallbackQuery(f) ==
    /\ fin[f].pc = "fallback_query"
    /\ LET k == FindSession(fin[f].token, fin[f].project) IN
        IF k # NoRow
        THEN FinSet(f, [fin[f] EXCEPT !.pc = "update_commit", !.sess = k])
        ELSE FinSet(f, [fin[f] EXCEPT !.pc = "release", !.resp = "error500"])
    /\ UNCHANGED <<now, sweep, idle, tenants, sessions, events, pending, pendingEvents, lock, queue,
                   starts, sent, ing, job, regen>>

\* delete_pending_session after the commit
FinCleanupMeta(f) ==
    /\ fin[f].pc = "cleanup_meta"
    /\ pending' = [pending EXCEPT ![fin[f].token] = NoPending]
    /\ FinSet(f, [fin[f] EXCEPT !.pc = "cleanup_events"])
    /\ UNCHANGED <<now, sweep, idle, tenants, sessions, events, pendingEvents, lock, queue,
                   starts, sent, ing, job, regen>>

\* delete_pending_events after the commit
FinCleanupEvents(f) ==
    /\ fin[f].pc = "cleanup_events"
    /\ pendingEvents' = [pendingEvents EXCEPT ![fin[f].token] = <<>>]
    /\ FinSet(f, [fin[f] EXCEPT !.pc = "enqueue"])
    /\ UNCHANGED <<now, sweep, idle, tenants, sessions, events, pending, lock, queue, starts, sent, ing, job, regen>>

\* queue_video_generation: enqueue_job("generate_session_video", session_id)
Enqueue(q, tok) == Append(q, tok)

FinEnqueue(f) ==
    /\ fin[f].pc = "enqueue"
    /\ queue' = Enqueue(queue, fin[f].token)
    /\ FinSet(f, [fin[f] EXCEPT !.pc = "release", !.queued = TRUE])
    /\ UNCHANGED <<now, sweep, idle, tenants, sessions, events, pending, pendingEvents, lock,
                   starts, sent, ing, job, regen>>

\* mutant: the key is left in place
ReleaseLockSkipped(l, tok) == l

\* release_session_end_lock: DEL of the key, whoever set it
ReleaseLock(l, tok) == [l EXCEPT ![tok] = FALSE]

\* finally: the lock is released on every way out of the try block
FinRelease(f) ==
    /\ fin[f].pc = "release"
    /\ lock' = ReleaseLock(lock, fin[f].token)
    /\ FinDone(f, fin[f].token, fin[f].resp, fin[f].queued)
    /\ UNCHANGED <<now, sweep, idle, tenants, sessions, events, pending, pendingEvents, queue,
                   starts, sent, ing, job, regen>>

\* the durable Session exists in status active: the direct-write path
\* mutant: the legacy path records the duration but leaves the status alone
LegacyUpdateStaysActive(row, dur, cnt) ==
    [row EXCEPT !.duration = dur, !.event_count = cnt]

LegacyUpdate(row, dur, cnt) ==
    [row EXCEPT !.duration = dur, !.event_count = cnt, !.status = COMPLETED]

FinLegacyCommit(f) ==
    /\ fin[f].pc = "legacy_commit"
    /\ LET k == fin[f].sess
           dur == DurationSeconds(sessions[k].started_at, fin[f].ts)
       IN /\ sessions' = [sessions EXCEPT ![k] = LegacyUpdate(@, dur, fin[f].fec)]
          /\ IF dur >= MinDurationSeconds
             THEN FinSet(f, [fin[f] EXCEPT !.pc = "legacy_enqueue"])
             ELSE FinDone(f, fin[f].token, "legacy_short", FALSE)
    /\ UNCHANGED <<now, sweep, idle, tenants, events, pending, pendingEvents, lock, queue,
                   starts, sent, ing, job, regen>>

FinLegacyEnqueue(f) ==
    /\ fin[f].pc = "legacy_enqueue"
    /\ queue' = Enqueue(queue, fin[f].token)
    /\ FinDone(f, fin[f].token, "legacy_queued", TRUE)
    /\ UNCHANGED <<now, sweep, idle, tenants, sessions, events, pending, pendingEvents, lock,
                   starts, sent, ing, job, regen>>

\* the 30 s TTL of the lock key runs out while it is set
LockExpire(tok) ==
    /\ lock[tok]
    /\ lock' = [lock EXCEPT ![tok] = FALSE]
    /\ UNCHANGED <<now, sweep, idle, tenants, sessions, events, pending, pendingEvents, queue,
                   starts, sent, fin, ing, job, regen>>

\* ----------------------------------------------------------- POST /api/ingest
IngSet(i, r) == ing' = [ing EXCEPT ![i] = r]
IngDone(i, tok, msg, b, n, finalized) ==
    IngSet(i, [IngIdle EXCEPT !.pc = "done", !.token = tok, !.resp = msg, !.batch = b,
                              !.received = n, !.finalized = finalized])

\* the next n events of the client, in the order it sends them
ClientBatch(n) == [j \in 1..n |-> sent + j]

\* mutant: only a completed session rejects events
RejectsEventsCompletedOnly(st) == st = COMPLETED

\* session.status in finalized_statuses: events are rejected
RejectsEvents(st) == st \in {COMPLETED, PROCESSING, READY}

\* the empty-batch test, the session query and the dispatch on its result
IngQuery(i, tok, proj, n) ==
    /\ ing[i].pc = "idle"
    /\ \A g \in IngIds : g < i => ing[g].pc # "idle"   \* numbered by arrival
    /\ sent + n <= MaxEvents
    /\ sent' = sent + n
    /\ LET k == FindSession(tok, proj) IN
        IF n = 0
        THEN IngDone(i, tok, "no_events", <<>>, 0, FALSE)
        ELSE IF k # NoRow /\ RejectsEvents(sessions[k].status)
        THEN IngDone(i, tok, "rejected", ClientBatch(n), 0, TRUE)
        ELSE IF k # NoRow
        THEN IngSet(i, [IngIdle EXCEPT !.pc = "max_sequence", !.project = proj,
                                       !.token = tok, !.batch = ClientBatch(n),
                                       !.sess = k,
                                       !.count = sessions[k].event_count])
        ELSE IngSet(i, [IngIdle EXCEPT !.pc = "get_pending", !.project = proj,
                                       !.token = tok, !.batch = ClientBatch(n)])
    /\ idle' = 0
    /\ UNCHANGED <<now, sweep, tenants, sessions, events, pending, pendingEvents, lock, queue,
                   starts, fin, job, regen>>

\* query(Event.sequence_number).order_by(desc).first(); start_sequence = max + 1
MaxSequence(k) ==
    LET es == EventsOf(k) IN
        IF es = <<>> THEN -1
        ELSE CHOOSE m \in {es[j].sequence_number : j \in 1..Len(es)} :
                \A j \in 1..Len(es) : es[j].sequence_number <= m

StartSequence(k) == MaxSequence(k) + 1

IngMaxSequence(i) ==
    /\ ing[i].pc = "max_sequence"
    /\ IngSet(i, [ing[i] EXCEPT !.pc = "insert", !.first = StartSequence(ing[i].sess)])
    /\ UNCHANGED <<now, sweep, idle, tenants, sessions, events, pending, pendingEvents, lock, queue,
                   starts, sent, fin, job, regen>>

\* bulk_save_objects(events); session.event_count += n; commit
IngInsert(i) ==
    /\ ing[i].pc = "insert"
    /\ events' = events \o EventRows(ing[i].sess, ing[i].batch, ing[i].first)
    /\ sessions' = [sessions EXCEPT ![ing[i].sess].event_count =
                        ing[i].count + Len(ing[i].batch)]
    /\ IngDone(i, ing[i].token, "ingested", ing[i].batch, Len(ing[i].batch), FALSE)
    /\ UNCHANGED <<now, sweep, idle, tenants, pending, pendingEvents, lock, queue, starts, sent, fin, job, regen>>

\* mutant: the events accepted without a pending record are not counted
EventsAcceptedNone(batch) == 0

\* events_received = len(request.events) of "Events accepted (pending session)"
EventsAccepted(batch) == Len(batch)

\* no durable Session: get_pending_session and the project check
IngGetPending(i) ==
    /\ ing[i].pc = "get_pending"
    /\ LET p == pending[ing[i].token] IN
        IF p = NoPending
        THEN IngDone(i, ing[i].token, "accepted_no_pending", ing[i].batch,
                     EventsAccepted(ing[i].batch), FALSE)
        ELSE IF p.project_id # ing[i].project
        THEN IngDone(i, ing[i].token, "accepted_mismatch", ing[i].batch, Len(ing[i].batch), FALSE)
        ELSE IngSet(i, [ing[i] EXCEPT !.pc = "append"])
    /\ UNCHANGED <<now, sweep, idle, tenants, sessions, events, pending, pendingEvents, lock, queue,
                   starts, sent, fin, job, regen>>

\* append_pending_events: one RPUSH per event of the batch
IngAppend(i) ==
    /\ ing[i].pc = "append"
    /\ LET j == ing[i].pushed + 1 IN
        /\ pendingEvents' = [pendingEvents EXCEPT ![ing[i].token] =
                                Append(@, ing[i].batch[j])]
        /\ IF j = Len(ing[i].batch)
           THEN IngDone(i, ing[i].token, "stored_pending", ing[i].batch, Len(ing[i].batch), FALSE)
           ELSE IngSet(i, [ing[i] EXCEPT !.pushed = j])
    /\ UNCHANGED <<now, sweep, idle, tenants, sessions, events, pending, lock, queue, starts, sent, fin, job, regen>>

\* ------------------------------------------- worker: generate_session_video
JobSet(j, r) == job' = [job EXCEPT ![j] = r]
JobDone(j, res) == JobSet(j, [JobIdle EXCEPT !.pc = "done", !.token = job[j].token,
                                             !.sess = job[j].sess, !.result = res,
                                             !.thumb = job[j].thumb,
                                             !.thumb_url = job[j].thumb_url,
                                             !.job_try = job[j].job_try])

\* db.query(Session).filter(Session.session_id == session_id).first()
FindByToken(tok) ==
    IF \E k \in 1..Len(sessions) : sessions[k].session_id = tok
    THEN CHOOSE k \in 1..Len(sessions) : sessions[k].session_id = tok
    ELSE NoRow

\* an attribute assignment followed by db.commit(): the UPDATE carries the
\* attribute only if the new value differs from the one the object was loaded with
OrmWrite(current, loaded, new) == IF new = loaded THEN current ELSE new

WriteStatus(k, loaded, new) ==
    [sessions EXCEPT ![k].status = OrmWrite(@, loaded, new)]

\* the artifact columns of a row as the ORM object holds them after a load
UrlsOf(row) == [video_url |-> row.video_url,
                video_thumbnail_url |-> row.video_thumbnail_url,
                keyframes_url |-> row.keyframes_url]

\* the worker takes the oldest job of the queue. Every enqueue_job call makes a
\* job of its own (no _job_id is passed), so the run is the job's first try; a
\* job is run again only if its coroutine raises, and generate_session_video
\* returns a result dict on every failure it handles.
RenderStart(j) ==
    /\ job[j].pc \in {"idle", "done"}
    /\ queue # <<>>
    /\ queue' = Tail(queue)
    /\ JobSet(j, [JobIdle EXCEPT !.pc = "query", !.token = Head(queue), !.job_try = 1])
    /\ UNCHANGED <<now, sweep, idle, tenants, sessions, events, pending, pendingEvents, lock,
                   starts, sent, fin, ing, regen>>

\* status not in [COMPLETED, FAILED]: not eligible
Eligible(st) == st \in {COMPLETED, FAILED}

RenderQuery(j) ==
    /\ job[j].pc = "query"
    /\ LET k == FindByToken(job[j].token) IN
        IF k = NoRow THEN JobDone(j, "not_found")
        ELSE IF ~Eligible(sessions[k].status)
        THEN JobSet(j, [JobIdle EXCEPT !.pc = "done", !.token = job[j].token,
                                       !.sess = k, !.result = "not_eligible"])
        ELSE JobSet(j, [job[j] EXCEPT !.pc = "set_processing", !.sess = k,
                                      !.loaded = sessions[k].status])
    /\ UNCHANGED <<now, sweep, idle, tenants, sessions, events, pending, pendingEvents, lock, queue,
                   starts, sent, fin, ing, regen>>

\* session.status = PROCESSING; db.commit()
RenderSetProcessing(j) ==
    /\ job[j].pc = "set_processing"
    /\ sessions' = WriteStatus(job[j].sess, job[j].loaded, PROCESSING)
    /\ JobSet(j, [job[j] EXCEPT !.pc = "load_events"])
    /\ UNCHANGED <<now, sweep, idle, tenants, events, pending, pendingEvents, lock, queue,
                   starts, sent, fin, ing, regen>>

\* the events query; the expired session object is reloaded on the way
\* mutant: an empty event list is rendered like any other
AfterLoadEventsAlways(n) == "render"

\* if not events: the no-events exit
AfterLoadEvents(n) == IF n = 0 THEN "fail_no_events" ELSE "render"

RenderLoadEvents(j) ==
    /\ job[j].pc = "load_events"
    /\ LET n == Len(EventsOf(job[j].sess)) IN
        JobSet(j, [job[j] EXCEPT !.pc = AfterLoadEvents(n),
                                 !.nev = n,
                                 !.loaded = sessions[job[j].sess].status])
    /\ UNCHANGED <<now, sweep, idle, tenants, sessions, events, pending, pendingEvents, lock, queue,
                   starts, sent, fin, ing, regen>>

\* no events: session.status = FAILED; db.commit()
RenderFailNoEvents(j) ==
    /\ job[j].pc = "fail_no_events"
    /\ sessions' = WriteStatus(job[j].sess, job[j].loaded, FAILED)
    /\ JobDone(j, "no_events")
    /\ UNCHANGED <<now, sweep, idle, tenants, events, pending, pendingEvents, lock, queue,
                   starts, sent, fin, ing, regen>>

\* await generator.generate_video(...): a VideoResult, with or without thumbnail
RenderGenerate(j, ok, thumb) ==
    /\ job[j].pc = "render"
    /\ JobSet(j, [job[j] EXCEPT !.pc = IF ok THEN "upload_video" ELSE "fail_render",
                                !.thumb = ok /\ thumb])
    /\ UNCHANGED <<now, sweep, idle, tenants, sessions, events, pending, pendingEvents, lock, queue,
                   starts, sent, fin, ing, regen>>

\* not result.success: session.status = FAILED; db.commit()
RenderFailRender(j) ==
    /\ job[j].pc = "fail_render"
    /\ sessions' = WriteStatus(job[j].sess, job[j].loaded, FAILED)
    /\ JobDone(j, "render_failed")
    /\ UNCHANGED <<now, sweep, idle, tenants, events, pending, pendingEvents, lock, queue,
                   starts, sent, fin, ing, regen>>

\* await storage_service.upload_video(...); keyframes_path is never set by
\* generate_video, so after the thumbnail no further upload follows
RenderUploadVideo(j, ok) ==
    /\ job[j].pc = "upload_video"
    /\ JobSet(j, [job[j] EXCEPT !.video_url = ok, !.upload_success = ok,
                                !.pc = IF ~ok THEN "upload_failed"
                                       ELSE IF job[j].thumb THEN "upload_thumb"
                                       ELSE "final_query"])
    /\ UNCHANGED <<now, sweep, idle, tenants, sessions, events, pending, pendingEvents, lock, queue,
                   starts, sent, fin, ing, regen>>

\* await storage_service.upload_thumbnail(...): failure is logged only
\* mutant: a failed thumbnail upload takes the failure exit
AfterThumbnailFatal(ok) == IF ok THEN "final_query" ELSE "upload_failed"

\* thumbnail upload failure is non-critical, continue without it
AfterThumbnail(ok) == "final_query"

RenderUploadThumb(j, ok) ==
    /\ job[j].pc = "upload_thumb"
    /\ JobSet(j, [job[j] EXCEPT !.thumb_url = ok, !.pc = AfterThumbnail(ok)])
    /\ UNCHANGED <<now, sweep, idle, tenants, sessions, events, pending, pendingEvents, lock, queue,
                   starts, sent, fin, ing, regen>>

\* not upload_success: the re-query returns the object already loaded, so the
\* status tested is the one loaded with the events
\* mutant: the failure exit never finds the session in processing
StillProcessingNever(st) == FALSE

\* session and session.status == PROCESSING
StillProcessing(st) == st = PROCESSING

RenderUploadFailed(j) ==
    /\ job[j].pc = "upload_failed"
    /\ sessions' = IF StillProcessing(job[j].loaded)
                   THEN WriteStatus(job[j].sess, job[j].loaded, FAILED)
                   ELSE sessions
    /\ JobDone(j, "upload_failed")
    /\ UNCHANGED <<now, sweep, idle, tenants, events, pending, pendingEvents, lock, queue,
                   starts, sent, fin, ing, regen>>

\* db.expire_all(); re-fetch; a session no longer in processing is left alone
RenderFinalQuery(j) ==
    /\ job[j].pc = "final_query"
    /\ IF sessions[job[j].sess].status # PROCESSING
       THEN JobDone(j, "reactivated")
       ELSE JobSet(j, [job[j] EXCEPT !.pc = "commit_ready", !.loaded = PROCESSING,
                                     !.lurls = UrlsOf(sessions[job[j].sess])])
    /\ UNCHANGED <<now, sweep, idle, tenants, sessions, events, pending, pendingEvents, lock, queue,
                   starts, sent, fin, ing, regen>>

\* status = READY, the URLs and the video metadata; db.commit()
MarkReady(row, loaded, video, thumbnail) ==
    [row EXCEPT !.status = READY,
                !.video_url = OrmWrite(@, loaded.video_url, video),
                !.video_thumbnail_url = OrmWrite(@, loaded.video_thumbnail_url, thumbnail),
                !.keyframes_url = OrmWrite(@, loaded.keyframes_url, FALSE)]

RenderCommitReady(j) ==
    /\ job[j].pc = "commit_ready"
    /\ sessions' = [sessions EXCEPT ![job[j].sess] =
                        MarkReady(@, job[j].lurls, job[j].video_url, job[j].thumb_url)]
    /\ JobDone(j, "ok")
    /\ UNCHANGED <<now, sweep, idle, tenants, events, pending, pendingEvents, lock, queue,
                   starts, sent, fin, ing, regen>>

\* the awaits a cancellation can interrupt
AtAwait(j) == job[j].pc \in {"render", "upload_video", "upload_thumb"}

\* job_timeout = 600: ARQ cancels the coroutine at its current await. The
\* asyncio.CancelledError raised there derives from BaseException, so the
\* "except Exception" handler that marks the session failed does not run; only
\* the finally block does (db.close(), removal of the temp directory).
RenderTimeout(j) ==
    /\ AtAwait(j)
    /\ JobDone(j, "timeout")
    /\ UNCHANGED <<now, sweep, idle, tenants, sessions, events, pending, pendingEvents, lock, queue,
                   starts, sent, fin, ing, regen>>

\* an exception in the job body (tempfile.mkdtemp raising OSError): the except
\* block sets status FAILED and commits
RenderException(j) ==
    /\ job[j].pc = "render"
    /\ sessions' = WriteStatus(job[j].sess, job[j].loaded, FAILED)
    /\ JobDone(j, "exception")
    /\ UNCHANGED <<now, sweep, idle, tenants, events, pending, pendingEvents, lock, queue,
                   starts, sent, fin, ing, regen>>

\* ------------------------------- POST /api/sessions/{id}/regenerate-video
RegenSet(r, v) == regen' = [regen EXCEPT ![r] = v]
RegenDone(r, tok, msg) ==
    RegenSet(r, [RegenIdle EXCEPT !.pc = "done", !.token = tok, !.resp = msg])

RegenQuery(r, tok) ==
    /\ regen[r].pc = "idle"
    /\ LET k == FindByToken(tok) IN
        IF k = NoRow THEN RegenDone(r, tok, "error404")
        ELSE IF sessions[k].event_count = 0 THEN RegenDone(r, tok, "error400")
        ELSE RegenSet(r, [RegenIdle EXCEPT !.pc = "commit", !.token = tok, !.sess = k,
                                           !.loaded = sessions[k].status,
                                           !.lurls = UrlsOf(sessions[k])])
    /\ UNCHANGED <<now, sweep, idle, tenants, sessions, events, pending, pendingEvents, lock, queue,
                   starts, sent, fin, ing, job>>

\* status = COMPLETED and the artifact fields cleared; db.commit()
Rearm(row, status, loaded) ==
    [row EXCEPT !.status = OrmWrite(@, status, COMPLETED),
                !.video_url = OrmWrite(@, loaded.video_url, FALSE),
                !.video_thumbnail_url = OrmWrite(@, loaded.video_thumbnail_url, FALSE),
                !.keyframes_url = OrmWrite(@, loaded.keyframes_url, FALSE)]

RegenCommit(r) ==
    /\ regen[r].pc = "commit"
    /\ sessions' = [sessions EXCEPT ![regen[r].sess] = Rearm(@, regen[r].loaded, regen[r].lurls)]
    /\ RegenSet(r, [regen[r] EXCEPT !.pc = "enqueue"])
    /\ UNCHANGED <<now, sweep, idle, tenants, events, pending, pendingEvents, lock, queue,
                   starts, sent, fin, ing, job>>

RegenEnqueue(r) ==
    /\ regen[r].pc = "enqueue"
    /\ queue' = Enqueue(queue, regen[r].token)
    /\ RegenDone(r, regen[r].token, "queued")
    /\ UNCHANGED <<now, sweep, idle, tenants, sessions, events, pending, pendingEvents, lock,
                   starts, sent, fin, ing, job>>

\* ---------------------------------------------------------------------- Next
Next ==
    \/ \E tok \in Tokens, proj \in tenants, ts \in StartTimestamps :
            StartSession(tok, proj, ts)
    \/ \E f \in FinIds, tok \in Tokens, proj \in tenants, ts \in EndTimestamps,
          fec \in FinalEventCounts : FinQuery(f, tok, proj, ts, fec)
    \/ \E f \in FinIds : FinAcquire(f)
    \/ \E f \in FinIds : FinGetPending(f)
    \/ \E f \in FinIds : FinNoData(f)
    \/ \E f \in FinIds : FinGetEvents(f)
    \/ \E f \in FinIds : FinDiscardMeta(f)
    \/ \E f \in FinIds : FinDiscardEvents(f)
    \/ \E f \in FinIds : FinRecheck(f)
    \/ \E f \in FinIds : FinUpdateCommit(f)
    \/ \E f \in FinIds : FinInsert(f)
    \/ \E f \in FinIds : FinFallbackQuery(f)
    \/ \E f \in FinIds : FinCleanupMeta(f)
    \/ \E f \in FinIds : FinCleanupEvents(f)
    \/ \E f \in FinIds : FinEnqueue(f)
    \/ \E f \in FinIds : FinRelease(f)
    \/ \E f \in FinIds : FinLegacyCommit(f)
    \/ \E f \in FinIds : FinLegacyEnqueue(f)
    \/ \E tok \in Tokens : LockExpire(tok)
    \/ \E i \in IngIds, tok \in Tokens, proj \in tenants, n \in 0..MaxBatch :
            IngQuery(i, tok, proj, n)
    \/ \E i \in IngIds : IngMaxSequence(i)
    \/ \E i \in IngIds : IngInsert(i)
    \/ \E i \in IngIds : IngGetPending(i)
    \/ \E i \in IngIds : IngAppend(i)

Spec == Init /\ [][Next]_vars


\* ------------------------------------- a session that never receives events
\* The staged life of a token whose client sends no event: start, finalize
\* (with its races), then the worker on the promoted session.
InitZero == Init /\ sessions = <<>>

NextZero ==
    \/ \E tok \in Tokens, proj \in tenants, ts \in StartTimestamps :
            StartSession(tok, proj, ts)
    \/ \E f \in FinIds, tok \in Tokens, proj \in tenants, ts \in EndTimestamps,
          fec \in FinalEventCounts : FinQuery(f, tok, proj, ts, fec)
    \/ \E f \in FinIds : FinAcquire(f)
    \/ \E f \in FinIds : FinGetPending(f)
    \/ \E f \in FinIds : FinNoData(f)
    \/ \E f \in FinIds : FinGetEvents(f)
    \/ \E f \in FinIds : FinDiscardMeta(f)
    \/ \E f \in FinIds : FinDiscardEvents(f)
    \/ \E f \in FinIds : FinRecheck(f)
    \/ \E f \in FinIds : FinUpdateCommit(f)
    \/ \E f \in FinIds : FinInsert(f)
    \/ \E f \in FinIds : FinFallbackQuery(f)
    \/ \E f \in FinIds : FinCleanupMeta(f)
    \/ \E f \in FinIds : FinCleanupEvents(f)
    \/ \E f \in FinIds : FinEnqueue(f)
    \/ \E f \in FinIds : FinRelease(f)
    \/ \E tok \in Tokens : LockExpire(tok)
    \/ \E j \in JobIds : RenderStart(j)
    \/ \E j \in JobIds : RenderQuery(j)
    \/ \E j \in JobIds : RenderSetProcessing(j)
    \/ \E j \in JobIds : RenderLoadEvents(j)
    \/ \E j \in JobIds : RenderFailNoEvents(j)
    \/ \E r \in RegenIds, tok \in Tokens : RegenQuery(r, tok)

SpecZero == InitZero /\ [][NextZero]_vars

\* ------------------------------------------------------ the render pipeline
\* The durable store right after a promotion: one completed Session of 35 s
\* with n buffered events inserted, and its render job in the queue.
PromotedEvents(n) == EventRows(1, [j \in 1..n |-> j], 0)

InitRender ==
    /\ now = 10000
    /\ idle = 0
    /\ tenants = {"p1"}
    /\ \E n \in 0..MaxEvents :
        /\ sessions = <<NewSession("s1", "p1", 500, 35, n)>>
        /\ events = PromotedEvents(n)
        /\ sent = n
    /\ pending = [t \in Tokens |-> NoPending]
    /\ pendingEvents = [t \in Tokens |-> <<>>]
    /\ lock = [t \in Tokens |-> FALSE]
    /\ queue = <<"s1">>
    /\ starts = 1
    /\ fin = [f \in FinIds |-> FinIdle]
    /\ ing = [i \in IngIds |-> IngIdle]
    /\ job = [j \in JobIds |-> JobIdle]
    /\ regen = [r \in RegenIds |-> RegenIdle]
    /\ sweep = SweepIdle

NextRender ==
    \/ \E j \in JobIds : RenderStart(j)
    \/ \E j \in JobIds : RenderQuery(j)
    \/ \E j \in JobIds : RenderSetProcessing(j)
    \/ \E j \in JobIds : RenderLoadEvents(j)
    \/ \E j \in JobIds : RenderFailNoEvents(j)
    \/ \E j \in JobIds, ok \in BOOLEAN, thumb \in BOOLEAN : RenderGenerate(j, ok, thumb)
    \/ \E j \in JobIds : RenderFailRender(j)
    \/ \E j \in JobIds, ok \in BOOLEAN : RenderUploadVideo(j, ok)
    \/ \E j \in JobIds, ok \in BOOLEAN : RenderUploadThumb(j, ok)
    \/ \E j \in JobIds : RenderUploadFailed(j)
    \/ \E j \in JobIds : RenderFinalQuery(j)
    \/ \E j \in JobIds : RenderCommitReady(j)
    \/ \E j \in JobIds : RenderTimeout(j)
    \/ \E j \in JobIds : RenderException(j)
    \/ \E r \in RegenIds, tok \in Tokens : RegenQuery(r, tok)
    \/ \E r \in RegenIds : RegenCommit(r)
    \/ \E r \in RegenIds : RegenEnqueue(r)
    \/ \E f \in FinIds, tok \in Tokens, proj \in tenants, ts \in EndTimestamps,
          fec \in FinalEventCounts : FinQuery(f, tok, proj, ts, fec)

SpecRender == InitRender /\ [][NextRender]_vars


\* ------------------------------------------------ cleanup_stale_sessions
\* The cron job of the worker, next to /ingest and /sessions/end on durable
\* Sessions in status active.

\* the clock moves to its next reading
Tick ==
    /\ \E t \in ClockTimes :
        /\ t > now
        /\ \A u \in ClockTimes : u > now => t <= u
        /\ now' = t
    /\ UNCHANGED <<idle, tenants, sessions, events, pending, pendingEvents, lock, queue,
                   starts, sent, fin, ing, job, regen, sweep>>

\* filter(status == ACTIVE, started_at < stale_threshold)
IsStale(row, t) == row.status = ACTIVE /\ row.started_at < t - StaleMs

RECURSIVE InOrder(_)
InOrder(S) ==
    IF S = {} THEN <<>>
    ELSE LET m == CHOOSE x \in S : \A y \in S : x <= y
         IN <<m>> \o InOrder(S \ {m})

\* .all(): the ids of the rows the query returns
StaleActiveSessions(t) == InOrder({k \in 1..Len(sessions) : IsStale(sessions[k], t)})

SweepSet(r) == sweep' = r

\* now = utc_now(); the query; the loop starts on its first row
SweepQuery ==
    /\ sweep.pc \in {"idle", "done"}
    /\ sweep.runs < NumSweeps
    /\ LET rows == StaleActiveSessions(now) IN
        SweepSet([SweepIdle EXCEPT !.pc = IF rows = <<>> THEN "done" ELSE "commit",
                                   !.now = now, !.stale = rows, !.idx = 1,
                                   !.runs = sweep.runs + 1])
    /\ UNCHANGED <<idle, tenants, sessions, events, pending, pendingEvents, lock, queue,
                   starts, sent, fin, ing, job, regen, now>>

\* status = COMPLETED; ended_at = now; duration = int(total_seconds)
SweepUpdate(row, t) ==
    [row EXCEPT !.status = COMPLETED, !.duration = IntTrunc(t - row.started_at, MsPerSecond)]

\* the loop body up to db.commit() for the current row
SweepCommit ==
    /\ sweep.pc = "commit"
    /\ LET k == sweep.stale[sweep.idx] IN
        sessions' = [sessions EXCEPT ![k] = SweepUpdate(@, sweep.now)]
    /\ SweepSet([sweep EXCEPT !.pc = "enqueue"])
    /\ UNCHANGED <<idle, tenants, events, pending, pendingEvents, lock, queue,
                   starts, sent, fin, ing, job, regen, now>>

\* session.duration and session.duration >= 30 and session.event_count > 0,
\* on the row as it reads after the commit
QueuesVideo(row) ==
    /\ row.duration # NULL /\ row.duration # 0
    /\ row.duration >= MinDurationSeconds
    /\ row.event_count > 0

\* the rest of the loop body: the test, the enqueue, processed += 1
SweepEnqueue ==
    /\ sweep.pc = "enqueue"
    /\ LET k == sweep.stale[sweep.idx]
           q == QueuesVideo(sessions[k])
       IN /\ queue' = IF q THEN Enqueue(queue, sessions[k].session_id) ELSE queue
          /\ SweepSet([sweep EXCEPT
                !.pc = IF sweep.idx < Len(sweep.stale) THEN "commit" ELSE "done",
                !.idx = sweep.idx + 1,
                !.processed = @ + 1,
                !.queued_for_video = IF q THEN @ + 1 ELSE @])
    /\ UNCHANGED <<idle, tenants, sessions, events, pending, pendingEvents, lock,
                   starts, sent, fin, ing, job, regen, now>>

\* a second durable Session next to the one the client works on
OtherSessions ==
    {LegacySession("s2", "p1", t) : t \in {6400, 200000}}
        \cup {NewSession("s2", "p1", 6400, 24, 0)}

InitSweep ==
    /\ tenants = {"p1"}
    /\ \E t \in LegacyStartTimes :
        \/ sessions = <<LegacySession("s1", "p1", t)>>
        \/ \E o \in OtherSessions : sessions = <<LegacySession("s1", "p1", t), o>>
    /\ events = <<>>
    /\ pending = [t \in Tokens |-> NoPending]
    /\ pendingEvents = [t \in Tokens |-> <<>>]
    /\ lock = [t \in Tokens |-> FALSE]
    /\ queue = <<>>
    /\ starts = 0
    /\ sent = 0
    /\ fin = [f \in FinIds |-> FinIdle]
    /\ ing = [i \in IngIds |-> IngIdle]
    /\ job = [j \in JobIds |-> JobIdle]
    /\ regen = [r \in RegenIds |-> RegenIdle]
    /\ now = 10000
    /\ idle = 0
    /\ sweep = SweepIdle

NextSweep ==
    \/ Tick
    \/ SweepQuery
    \/ SweepCommit
    \/ SweepEnqueue
    \/ \E i \in IngIds, tok \in Tokens, proj \in tenants, n \in 0..MaxBatch :
            IngQuery(i, tok, proj, n)
    \/ \E i \in IngIds : IngMaxSequence(i)
    \/ \E i \in IngIds : IngInsert(i)
    \/ \E f \in FinIds, tok \in Tokens, proj \in tenants, ts \in EndTimestamps,
          fec \in FinalEventCounts : FinQuery(f, tok, proj, ts, fec)
    \/ \E f \in FinIds : FinLegacyCommit(f)
    \/ \E f \in FinIds : FinLegacyEnqueue(f)

SpecSweep == InitSweep /\ [][NextSweep]_vars


\* ------------------------------------------- a durable Session in status active
\* One Session in status active with /ingest, /sessions/end, regenerate-video
\* and the first steps of the worker on it.
InitActive == InitSweep /\ Len(sessions) = 1

NextActive ==
    \/ \E i \in IngIds, tok \in Tokens, proj \in tenants, n \in 0..MaxBatch :
            IngQuery(i, tok, proj, n)
    \/ \E i \in IngIds : IngMaxSequence(i)
    \/ \E i \in IngIds : IngInsert(i)
    \/ \E f \in FinIds, tok \in Tokens, proj \in tenants, ts \in EndTimestamps,
          fec \in FinalEventCounts : FinQuery(f, tok, proj, ts, fec)
    \/ \E f \in FinIds : FinLegacyCommit(f)
    \/ \E f \in FinIds : FinLegacyEnqueue(f)
    \/ \E r \in RegenIds, tok \in Tokens : RegenQuery(r, tok)
    \/ \E r \in RegenIds : RegenCommit(r)
    \/ \E r \in RegenIds : RegenEnqueue(r)
    \/ \E j \in JobIds : RenderStart(j)
    \/ \E j \in JobIds : RenderQuery(j)
    \/ \E j \in JobIds : RenderSetProcessing(j)
    \/ \E j \in JobIds : RenderLoadEvents(j)
    \/ \E j \in JobIds : RenderFailNoEvents(j)

SpecActive == InitActive /\ [][NextActive]_vars


\* ------------------------------------------------- two projects, one token
\* Projects p1 and p2 both use the session token s1: start and finalize for
\* either project, with or without a durable Session of p2 already stored.
InitTenants ==
    /\ now = 10000
    /\ idle = 0
    /\ tenants = {"p1", "p2"}
    /\ sessions \in {<<>>, <<NewSession("s1", "p2", 500, 35, 0)>>}
    /\ events = <<>>
    /\ pending = [t \in Tokens |-> NoPending]
    /\ pendingEvents = [t \in Tokens |-> <<>>]
    /\ lock = [t \in Tokens |-> FALSE]
    /\ queue = <<>>
    /\ starts = 0
    /\ sent = 0
    /\ fin = [f \in FinIds |-> FinIdle]
    /\ ing = [i \in IngIds |-> IngIdle]
    /\ job = [j \in JobIds |-> JobIdle]
    /\ regen = [r \in RegenIds |-> RegenIdle]
    /\ sweep = SweepIdle

NextTenants ==
    \/ \E tok \in Tokens, proj \in tenants, ts \in StartTimestamps :
            StartSession(tok, proj, ts)
    \/ \E f \in FinIds, tok \in Tokens, proj \in tenants, ts \in EndTimestamps,
          fec \in FinalEventCounts : FinQuery(f, tok, proj, ts, fec)
    \/ \E f \in FinIds : FinAcquire(f)
    \/ \E f \in FinIds : FinGetPending(f)
    \/ \E f \in FinIds : FinNoData(f)
    \/ \E f \in FinIds : FinGetEvents(f)
    \/ \E f \in FinIds : FinDiscardMeta(f)
    \/ \E f \in FinIds : FinDiscardEvents(f)
    \/ \E f \in FinIds : FinRecheck(f)
    \/ \E f \in FinIds : FinUpdateCommit(f)
    \/ \E f \in FinIds : FinInsert(f)
    \/ \E f \in FinIds : FinFallbackQuery(f)
    \/ \E f \in FinIds : FinCleanupMeta(f)
    \/ \E f \in FinIds : FinCleanupEvents(f)
    \/ \E f \in FinIds : FinEnqueue(f)
    \/ \E f \in FinIds : FinRelease(f)
    \/ \E tok \in Tokens : LockExpire(tok)

SpecTenants == InitTenants /\ [][NextTenants]_vars


\* -------------------------------------- /ingest during the render pipeline
\* The client keeps sending batches for a promoted session while the worker
\* and regenerate-video work on it.
NextLate ==
    \/ \E j \in JobIds : RenderStart(j)
    \/ \E j \in JobIds : RenderQuery(j)
    \/ \E j \in JobIds : RenderSetProcessing(j)
    \/ \E j \in JobIds : RenderLoadEvents(j)
    \/ \E j \in JobIds : RenderFailNoEvents(j)
    \/ \E j \in JobIds, ok \in BOOLEAN, thumb \in BOOLEAN : RenderGenerate(j, ok, thumb)
    \/ \E j \in JobIds : RenderFailRender(j)
    \/ \E j \in JobIds, ok \in BOOLEAN : RenderUploadVideo(j, ok)
    \/ \E j \in JobIds, ok \in BOOLEAN : RenderUploadThumb(j, ok)
    \/ \E j \in JobIds : RenderUploadFailed(j)
    \/ \E j \in JobIds : RenderFinalQuery(j)
    \/ \E j \in JobIds : RenderCommitReady(j)
    \/ \E j \in JobIds : RenderTimeout(j)
    \/ \E j \in JobIds : RenderException(j)
    \/ \E r \in RegenIds, tok \in Tokens : RegenQuery(r, tok)
    \/ \E r \in RegenIds : RegenCommit(r)
    \/ \E r \in RegenIds : RegenEnqueue(r)
    \/ \E f \in FinIds, tok \in Tokens, proj \in tenants, ts \in EndTimestamps,
          fec \in FinalEventCounts : FinQuery(f, tok, proj, ts, fec)
    \/ \E i \in IngIds, tok \in Tokens, proj \in tenants, n \in 0..MaxBatch :
            IngQuery(i, tok, proj, n)
    \/ \E i \in IngIds : IngMaxSequence(i)
    \/ \E i \in IngIds : IngInsert(i)

SpecLate == InitRender /\ [][NextLate]_vars


\* ------------------------------------------- the staging store's time-to-live
\* The staged life of a token while time passes. The client is never silent
\* for PendingSessionTtl seconds: Elapse is enabled only while the time since
\* its last request stays below the TTL. Every batch carries at least one
\* event, so the events list, whose TTL every append renews
\* (client.expire in append_pending_events), outlives the record. A request
\* is served within the 30 s of the finalize lock, so two finalize requests
\* never hold it together and no insert meets a duplicate key.

\* seconds that pass between two requests of the client
ElapseSeconds == {400}

\* the clock stops MaxElapsed seconds after the first reading
MaxElapsed == 800

\* the client's clock: the timestamp its next /sessions/end carries
ClientNow == now - 10000 + 500

\* Redis counts the key's TTL down from the SETEX of store_pending_session;
\* no later command renews it
Remaining(ttl, d) == ttl - d

\* a key whose TTL has run out is gone
Expired(p, d) ==
    IF p = NoPending THEN NoPending
    ELSE IF Remaining(p.ttl, d) <= 0 THEN NoPending
    ELSE [p EXCEPT !.ttl = Remaining(p.ttl, d)]

\* d seconds pass between two requests: the clock advances, the pending
\* record counts down or expires, the 30 s finalize lock expires
Elapse(d) ==
    /\ idle + d < PendingSessionTtl
    /\ \A f \in FinIds : fin[f].pc \in {"idle", "done"}
    /\ \A i \in IngIds : ing[i].pc \in {"idle", "done"}
    /\ now + d * MsPerSecond <= 10000 + MaxElapsed * MsPerSecond
    /\ now' = now + d * MsPerSecond
    /\ idle' = idle + d
    /\ pending' = [t \in Tokens |-> Expired(pending[t], d)]
    /\ lock' = [t \in Tokens |-> FALSE]
    /\ UNCHANGED <<sweep, tenants, sessions, events, pendingEvents, queue,
                   starts, sent, fin, ing, job, regen>>

InitTtl == Init /\ sessions = <<>>

NextTtl ==
    \/ \E d \in ElapseSeconds : Elapse(d)
    \/ \E tok \in Tokens, proj \in tenants, ts \in StartTimestamps :
            StartSession(tok, proj, ts)
    \/ \E i \in IngIds, tok \in Tokens, proj \in tenants, n \in 1..MaxBatch :
            IngQuery(i, tok, proj, n)
    \/ \E i \in IngIds : IngGetPending(i)
    \/ \E i \in IngIds : IngAppend(i)
    \/ \E f \in FinIds, tok \in Tokens, proj \in tenants, fec \in FinalEventCounts :
            FinQuery(f, tok, proj, ClientNow, fec)
    \/ \E f \in FinIds : FinAcquire(f)
    \/ \E f \in FinIds : FinGetPending(f)
    \/ \E f \in FinIds : FinNoData(f)
    \/ \E f \in FinIds : FinGetEvents(f)
    \/ \E f \in FinIds : FinDiscardMeta(f)
    \/ \E f \in FinIds : FinDiscardEvents(f)
    \/ \E f \in FinIds : FinRecheck(f)
    \/ \E f \in FinIds : FinUpdateCommit(f)
    \/ \E f \in FinIds : FinInsert(f)
    \/ \E f \in FinIds : FinCleanupMeta(f)
    \/ \E f \in FinIds : FinCleanupEvents(f)
    \/ \E f \in FinIds : FinEnqueue(f)
    \/ \E f \in FinIds : FinRelease(f)

SpecTtl == InitTtl /\ [][NextTtl]_vars


\* ------------------------------------------- promotion under a fair worker
\* The staged life of a token with a Redis that may refuse the enqueue:
\* queue_video_generation catches the exception and returns False. Request
\* handlers and the worker run to completion (weak fairness on their steps).

\* queue_video_generation returned False: no job was made, the response
\* carries video_job_queued = false
FinEnqueueFailed(f) ==
    /\ fin[f].pc = "enqueue"
    /\ FinSet(f, [fin[f] EXCEPT !.pc = "release", !.queued = FALSE])
    /\ UNCHANGED <<now, sweep, idle, tenants, sessions, events, pending, pendingEvents, lock,
                   queue, starts, sent, ing, job, regen>>

\* the steps of a /sessions/end request after its arrival
RequestStep ==
    \E f \in FinIds :
        \/ FinAcquire(f) \/ FinGetPending(f) \/ FinNoData(f) \/ FinGetEvents(f)
        \/ FinDiscardMeta(f) \/ FinDiscardEvents(f) \/ FinRecheck(f)
        \/ FinUpdateCommit(f) \/ FinInsert(f) \/ FinFallbackQuery(f)
        \/ FinCleanupMeta(f) \/ FinCleanupEvents(f)
        \/ FinEnqueue(f) \/ FinEnqueueFailed(f) \/ FinRelease(f)

\* the steps of the worker on generate_session_video jobs
WorkerStep ==
    \E j \in JobIds :
        \/ RenderStart(j) \/ RenderQuery(j) \/ RenderSetProcessing(j)
        \/ RenderLoadEvents(j) \/ RenderFailNoEvents(j)

NextFair ==
    \/ \E tok \in Tokens, proj \in tenants, ts \in StartTimestamps :
            StartSession(tok, proj, ts)
    \/ \E f \in FinIds, tok \in Tokens, proj \in tenants, ts \in EndTimestamps,
          fec \in FinalEventCounts : FinQuery(f, tok, proj, ts, fec)
    \/ \E f \in FinIds : FinAcquire(f)
    \/ \E f \in FinIds : FinGetPending(f)
    \/ \E f \in FinIds : FinNoData(f)
    \/ \E f \in FinIds : FinGetEvents(f)
    \/ \E f \in FinIds : FinDiscardMeta(f)
    \/ \E f \in FinIds : FinDiscardEvents(f)
    \/ \E f \in FinIds : FinRecheck(f)
    \/ \E f \in FinIds : FinUpdateCommit(f)
    \/ \E f \in FinIds : FinInsert(f)
    \/ \E f \in FinIds : FinFallbackQuery(f)
    \/ \E f \in FinIds : FinCleanupMeta(f)
    \/ \E f \in FinIds : FinCleanupEvents(f)
    \/ \E f \in FinIds : FinEnqueue(f)
    \/ \E f \in FinIds : FinRelease(f)
    \/ \E tok \in Tokens : LockExpire(tok)
    \/ \E j \in JobIds : RenderStart(j)
    \/ \E j \in JobIds : RenderQuery(j)
    \/ \E j \in JobIds : RenderSetProcessing(j)
    \/ \E j \in JobIds : RenderLoadEvents(j)
    \/ \E j \in JobIds : RenderFailNoEvents(j)
    \/ \E r \in RegenIds, tok \in Tokens : RegenQuery(r, tok)
    \/ \E f \in FinIds : FinEnqueueFailed(f)

SpecFair == InitZero /\ [][NextFair]_vars /\ WF_vars(RequestStep) /\ WF_vars(WorkerStep)


\* ====================================================================
\* Claims
\* ====================================================================
RowsOf(tok) == {k \in 1..Len(sessions) : sessions[k].session_id = tok}
FinFinished(f) == fin[f].pc = "done"
FinSuccess(f) == fin[f].resp # "error500"
Promoted(f) == fin[f].resp \in {"created", "updated"}

\* C1: concurrent finalize requests for one token never leave two durable
\* Session rows for it; every request that has returned returned success; and
\* once a request that promoted the pending record has returned, exactly one
\* row exists for the token.
C1_OneRowAllSuccess ==
    /\ \A tok \in Tokens : Cardinality(RowsOf(tok)) <= 1
    /\ \A f \in FinIds : FinFinished(f) => FinSuccess(f)
    /\ \A f \in FinIds : FinFinished(f) /\ Promoted(f) =>
            Cardinality(RowsOf(fin[f].token)) = 1

\* two requests were inside the promotion section together: one inserted the
\* row, the other ran into it, and both have returned
C1_Witness ==
    \E f, g \in FinIds :
        /\ FinFinished(f) /\ fin[f].resp = "created"
        /\ FinFinished(g) /\ fin[g].resp = "updated"
        /\ Cardinality(RowsOf(fin[f].token)) = 1

\* C2 (as claimed): when the finalize calls for a promotable token have all
\* returned, exactly one render job has been enqueued and all returned success.
C2_OneRenderJob ==
    (/\ starts = 1
     /\ \A f \in FinIds : FinFinished(f)
     /\ \E f \in FinIds : Promoted(f))
    => /\ Len(queue) = 1
       /\ \A f \in FinIds : FinSuccess(f)

\* a step of request f
FinStep(f) == fin'[f] # fin[f]
\* the request measured less than 30 s on a pending record with a start time
MeasuredShort(f) ==
    /\ fin[f].pend # NoPending
    /\ HasStartTime(fin[f].pend.timestamp)
    /\ fin[f].ts - fin[f].pend.timestamp < MinDurationSeconds * MsPerSecond
AfterDurationTest(f) ==
    fin[f].pc \notin {"idle", "lock", "get_pending", "get_events", "no_data_cleanup",
                      "legacy_commit", "legacy_enqueue", "done"}

\* C3: on the staged path a finalize that measures less than 30 s takes the
\* discard branch; every step of that branch leaves the durable store and the
\* job queue unchanged, its two deletes remove the pending record and the
\* buffered events, and it answers success without a queued job.  No step of any
\* request inserts a Session row whose duration is below 30 s, so such a session
\* never has a row, an event row or a video_url.
C3_ShortNeverDurable ==
    [][ /\ \A f \in FinIds :
            /\ (MeasuredShort(f) /\ AfterDurationTest(f)) =>
                    fin[f].pc \in {"discard_short", "discard_short_events", "release"}
            /\ (MeasuredShort(f) /\ AfterDurationTest(f) /\ FinStep(f)) =>
                    /\ sessions' = sessions /\ events' = events /\ queue' = queue
                    /\ fin[f].pc = "discard_short" => pending'[fin[f].token] = NoPending
                    /\ fin[f].pc = "discard_short_events" =>
                            pendingEvents'[fin[f].token] = <<>>
                    /\ fin[f].pc = "release" =>
                            /\ fin'[f].pc = "done"
                            /\ fin'[f].resp = "discarded_short"
                            /\ ~fin'[f].queued
        /\ \A k \in 1..Len(sessions') :
                k > Len(sessions) => sessions'[k].duration >= MinDurationSeconds
      ]_vars

\* a request discarded a short session that had buffered events, and has returned
C3_Witness ==
    \E f \in FinIds :
        /\ FinFinished(f) /\ fin[f].resp = "discarded_short"
        /\ sent > 0
        /\ sessions = <<>> /\ queue = <<>>
        /\ pending["s1"] = NoPending /\ pendingEvents["s1"] = <<>>

\* C4: a finalize that finds no durable Session reads the pending record and
\* the whole event buffer; with a start time and at least 30 s it goes on to
\* insert; its insert adds one Session
\* row in status completed with duration = whole seconds of (end - start) and
\* event_count = number of buffered events, and one event row per buffered
\* event, numbered 0.. in buffer order; it then deletes the pending record and
\* the buffered events and enqueues one render job for the token.
C4_PromotionCreates ==
    [][ \A f \in FinIds : FinStep(f) =>
        LET r == fin[f]
            tok == r.token
            k == Len(sessions) + 1
        IN
        /\ (r.pc = "get_pending" /\ pending[tok] # NoPending) =>
                fin'[f].pc = "get_events" /\ fin'[f].pend = pending[tok]
        /\ r.pc = "get_events" =>
                fin'[f].pevents = pendingEvents[tok] /\ fin'[f].pend = r.pend
        /\ (r.pc = "get_events" /\ HasStartTime(r.pend.timestamp)
                /\ r.ts - r.pend.timestamp >= MinDurationSeconds * MsPerSecond)
                => fin'[f].pc = "recheck"
        /\ (r.pc = "recheck" /\ FindSession(tok, r.project) = NoRow)
                => fin'[f].pc = "insert"
        /\ (r.pc = "insert" /\ RowsOf(tok) = {}) =>
                /\ fin'[f].pc = "cleanup_meta" /\ fin'[f].resp = "created"
                /\ Len(sessions') = k
                /\ sessions'[k].session_id = tok
                /\ sessions'[k].project_id = r.project
                /\ sessions'[k].status = COMPLETED
                /\ sessions'[k].duration * MsPerSecond <= r.ts - r.pend.timestamp
                /\ (sessions'[k].duration + 1) * MsPerSecond > r.ts - r.pend.timestamp
                /\ sessions'[k].event_count = Len(r.pevents)
                /\ Len(events') = Len(events) + Len(r.pevents)
                /\ \A j \in 1..Len(r.pevents) :
                        events'[Len(events) + j] =
                            [session |-> k, event_data |-> r.pevents[j],
                             sequence_number |-> j - 1, created_at |-> now]
        /\ r.pc = "cleanup_meta" =>
                pending'[tok] = NoPending /\ fin'[f].pc = "cleanup_events"
        /\ r.pc = "cleanup_events" =>
                pendingEvents'[tok] = <<>> /\ fin'[f].pc = "enqueue"
        /\ r.pc = "enqueue" =>
                /\ queue' = Append(queue, tok)
                /\ fin'[f].queued /\ fin'[f].pc = "release"
        /\ (r.pc = "release" /\ r.resp = "created") =>
                fin'[f].pc = "done" /\ fin'[f].resp = "created" /\ fin'[f].queued
      ]_vars

\* one request alone promoted a 35.9 s session with two buffered events
C4_Witness ==
    \E f \in FinIds :
        /\ FinFinished(f) /\ fin[f].resp = "created" /\ fin[f].queued
        /\ \A g \in FinIds \ {f} : fin[g].pc = "idle"
        /\ Len(sessions) = 1
        /\ sessions[1].duration = 35 /\ sessions[1].event_count = 2
        /\ Len(events) = 2
        /\ pending["s1"] = NoPending /\ pendingEvents["s1"] = <<>>
        /\ queue = <<"s1">>

\* C5: a finalize request that finds a durable Session in status ready,
\* completed or processing returns at once with the "already ended" success
\* answer, and the step changes no Session field, no event and no queue.
C5_FinalizeIdempotent ==
    [][\A f \in FinIds :
        (/\ fin[f].pc = "idle" /\ FinStep(f)
         /\ \E k \in 1..Len(sessions) :
                /\ sessions[k].session_id = fin'[f].token
                /\ sessions[k].project_id \in tenants
                /\ sessions[k].status \in {READY, COMPLETED, PROCESSING})
        => /\ fin'[f].pc = "done" /\ fin'[f].resp = "already_ended"
           /\ sessions' = sessions /\ events' = events /\ queue' = queue
      ]_vars

\* a ready session with its video was finalized twice more: both answers are
\* "already ended", the row is still ready and no job is queued
C5_Witness ==
    /\ \A f \in FinIds : FinFinished(f) /\ fin[f].resp = "already_ended"
    /\ Len(sessions) = 1
    /\ sessions[1].status = READY /\ sessions[1].video_url
    /\ queue = <<>>
    /\ \A j \in JobIds : job[j].pc \in {"idle", "done"}

\* C6 (as claimed): for every durable session the sequence numbers of its
\* events are exactly 0 .. n-1, without duplicate and without gap.
C6_SequenceNumbersGapless ==
    \A k \in 1..Len(sessions) :
        LET es == EventsOf(k) IN
            \A q \in 0..(Len(es) - 1) :
                Cardinality({a \in 1..Len(es) : es[a].sequence_number = q}) = 1

\* the events of the batches the server accepted for storing
AcceptedEvents ==
    UNION {{ing[i].batch[a] : a \in 1..Len(ing[i].batch)} :
            i \in {x \in IngIds : /\ ing[x].pc = "done"
                                  /\ ing[x].resp \in {"stored_pending", "ingested"}}}
Quiet ==
    /\ \A f \in FinIds : fin[f].pc \in {"idle", "done"}
    /\ \A i \in IngIds : ing[i].pc \in {"idle", "done"}

\* C7 (as claimed): when no request is in flight, the durable event log of a
\* session holds exactly the events of the accepted batches, once each, and
\* sequence_number order is the order in which the client sent them.
C7_RoundTrip ==
    Quiet =>
        \A k \in 1..Len(sessions) :
            LET es == EventsOf(k) IN
                /\ {es[a].event_data : a \in 1..Len(es)} = AcceptedEvents
                /\ Len(es) = Cardinality(AcceptedEvents)
                /\ \A a, b \in 1..Len(es) :
                        (es[a].sequence_number < es[b].sequence_number)
                        <=> (es[a].event_data < es[b].event_data)

\* C8 (as claimed): the step in which a render job is cancelled by the job
\* timeout leaves the session failed with no artifact URL.
C8_TimeoutMarksFailed ==
    [][\A j \in JobIds :
        (AtAwait(j) /\ job'[j].result = "timeout")
        => LET row == sessions'[job[j].sess] IN
            /\ row.status = FAILED
            /\ ~row.video_url /\ ~row.video_thumbnail_url /\ ~row.keyframes_url
      ]_vars

\* C9 (as claimed): once a promotion has completed, a token with a durable
\* Session has neither a pending record nor buffered events.
C9_OneTier ==
    (\E f \in FinIds : FinFinished(f) /\ Promoted(f))
    => \A tok \in Tokens :
            RowsOf(tok) # {} => pending[tok] = NoPending /\ pendingEvents[tok] = <<>>

\* C10 (as claimed): with the lock expiring under its holder, there is at most
\* one row per token, no request answers with an error, and when a promoting
\* request releases the lock every event it read from the buffer is stored
\* exactly once.
C10_LockNotNeeded ==
    /\ \A tok \in Tokens : Cardinality(RowsOf(tok)) <= 1
    /\ \A f \in FinIds : fin[f].resp # "error500"
    /\ \A f \in FinIds :
        (fin[f].pc = "release" /\ Promoted(f)) =>
            \A a \in 1..Len(fin[f].pevents) :
                Cardinality({e \in 1..Len(events) :
                                events[e].event_data = fin[f].pevents[a]}) = 1

\* the status changes the lifecycle allows
AllowedTransitions ==
    {<<ACTIVE, COMPLETED>>, <<COMPLETED, PROCESSING>>, <<PROCESSING, READY>>,
     <<COMPLETED, FAILED>>, <<PROCESSING, FAILED>>, <<FAILED, COMPLETED>>}

\* C11 (as claimed): every step that changes the status of a durable Session
\* changes it along one of the allowed transitions.
C11_OnlyAllowedTransitions ==
    [][\A k \in 1..Len(sessions) :
        sessions'[k].status # sessions[k].status
        => <<sessions[k].status, sessions'[k].status>> \in AllowedTransitions
      ]_vars

\* a step of job j
JobStep(j) == job'[j] # job[j]
\* the render and the uploads of job j succeeded: it is at its final re-fetch
\* or between the re-fetch and the commit
AtCompletion(j) == job[j].pc \in {"final_query", "commit_ready"}

\* C12 (as claimed): a job whose render and uploads succeeded and whose
\* session is no longer in processing takes no step that changes the Session
\* row; it ends with the success result of the reactivated case.
C12_NoReadyAfterDrift ==
    [][\A j \in JobIds :
        (AtCompletion(j) /\ JobStep(j) /\ sessions[job[j].sess].status # PROCESSING)
        => /\ sessions' = sessions
           /\ job'[j].pc = "done" /\ job'[j].result = "reactivated"
      ]_vars

C15_ZeroEventsFailFast ==
    [][/\ \A f \in FinIds :
            /\ (fin[f].pc = "insert" /\ FinStep(f) /\ fin[f].pevents = <<>>
                /\ ~UniqueViolation(fin[f].token))
                => /\ Len(sessions') = Len(sessions) + 1
                   /\ sessions'[Len(sessions')].status = COMPLETED
                   /\ sessions'[Len(sessions')].event_count = 0
                   /\ events' = events
            /\ (fin[f].pc = "enqueue" /\ FinStep(f))
                => queue' = Append(queue, fin[f].token)
       /\ \A j \in JobIds :
            /\ (job[j].pc = "load_events" /\ JobStep(j) /\ EventsOf(job[j].sess) = <<>>)
                => job'[j].pc = "fail_no_events" /\ sessions' = sessions
            /\ (job[j].pc = "fail_no_events" /\ JobStep(j))
                => /\ sessions'[job[j].sess].status = FAILED
                   /\ job'[j].pc = "done" /\ job'[j].result = "no_events"
       /\ \A k \in 1..Len(sessions') :
            EventsOf(k) = <<>> => sessions'[k].status # READY
      ]_vars

\* a 35 s session was promoted with an empty buffer, its job ran and ended with
\* the no-events result: the session is failed
C15_Witness ==
    /\ \E f \in FinIds : FinFinished(f) /\ fin[f].resp = "created" /\ fin[f].queued
    /\ \E j \in JobIds : job[j].pc = "done" /\ job[j].result = "no_events"
    /\ Len(sessions) = 1 /\ events = <<>>
    /\ sessions[1].status = FAILED /\ sessions[1].event_count = 0
    /\ sessions[1].duration = 35

\* C16: finalize of a durable Session in status active (legacy path) moves it
\* to completed with duration = whole seconds from its start time to the
\* request's timestamp, and the request enqueues a render job exactly when that
\* duration is at least 30 s.
C16_LegacyFinalize ==
    [][\A f \in FinIds :
        LET k == fin[f].sess
            secs == (fin[f].ts - sessions[k].started_at) \div MsPerSecond
        IN /\ (fin[f].pc = "legacy_commit" /\ FinStep(f))
                => /\ sessions[k].started_at <= fin[f].ts
                   /\ sessions'[k].status = COMPLETED
                   /\ sessions'[k].duration = secs
                   /\ queue' = queue
                   /\ IF secs >= 30
                      THEN fin'[f].pc = "legacy_enqueue"
                      ELSE fin'[f].pc = "done" /\ ~fin'[f].queued
           /\ (fin[f].pc = "legacy_enqueue" /\ FinStep(f))
                => /\ secs >= 30
                   /\ queue' = Append(queue, fin[f].token)
                   /\ fin'[f].pc = "done" /\ fin'[f].queued
                   /\ sessions' = sessions
      ]_vars

\* an active Session started at 6.4 s was finalized 30 s later: completed with
\* duration 30 and its job queued
C16_Witness ==
    /\ \E f \in FinIds : FinFinished(f) /\ fin[f].resp = "legacy_queued" /\ fin[f].queued
    /\ Len(sessions) = 1 /\ sessions[1].started_at = 6400
    /\ sessions[1].status = COMPLETED /\ sessions[1].duration = 30
    /\ queue = <<"s1">>

SweepStep == sweep' # sweep
\* the row the loop of the sweep is on
SweepRow == sweep.stale[sweep.idx]

\* C17: the sweep selects every active Session started more than 5 minutes
\* ago, moves each to completed with duration = whole seconds from its start
\* to the sweep's time, enqueues a render job for it exactly when its duration
\* is at least 30 s and its event_count at least 1, and changes no Session
\* that is not active.
C17_SweepCompletesStale ==
    [][SweepStep =>
        /\ sweep.pc \in {"idle", "done"} =>
              /\ \A k \in 1..Len(sessions) :
                    (sessions[k].status = ACTIVE /\ now - sessions[k].started_at > StaleMs)
                        <=> \E n \in 1..Len(sweep'.stale) : sweep'.stale[n] = k
              /\ sessions' = sessions /\ queue' = queue
        /\ sweep.pc = "commit" =>
              /\ sessions'[SweepRow].status = COMPLETED
              /\ sessions'[SweepRow].duration =
                    (sweep.now - sessions[SweepRow].started_at) \div MsPerSecond
              /\ queue' = queue
        /\ sweep.pc = "enqueue" =>
              /\ sessions' = sessions
              /\ IF sessions[SweepRow].duration >= 30 /\ sessions[SweepRow].event_count >= 1
                 THEN queue' = Append(queue, sessions[SweepRow].session_id)
                 ELSE queue' = queue
        /\ \A k \in 1..Len(sessions) :
              sessions[k].status # ACTIVE => sessions'[k] = sessions[k]
      ]_vars

\* the Session received an event less than 5 minutes before time t
RecentlyActive(k, t) ==
    \E n \in 1..Len(events) :
        events[n].session = k /\ events[n].created_at > t - StaleMs

\* C18: the sweep never moves to completed an active Session that received
\* events within the last 5 minutes, however long ago it started.
C18_SweepOnlyIdle ==
    [][\A k \in 1..Len(sessions) :
        (SweepStep /\ sessions[k].status = ACTIVE /\ RecentlyActive(k, sweep.now))
            => sessions'[k].status = ACTIVE
      ]_vars

\* C19: a render job whose storage upload fails is retried by the scheduler,
\* and the session becomes failed only on the job's last allowed try (the
\* third).
C19_FailedOnlyAfterRetries ==
    [][\A j \in JobIds :
        (/\ job[j].pc = "upload_failed" /\ JobStep(j)
         /\ sessions[job[j].sess].status # FAILED
         /\ sessions'[job[j].sess].status = FAILED)
            => job[j].job_try = MaxTries
      ]_vars

RegenStep(r) == regen'[r] # regen[r]

\* C20: regenerate-video on a session with event_count > 0 leaves it in
\* status completed with video_url, thumbnail URL and keyframes URL cleared and
\* enqueues a render job; on a session with event_count = 0 it answers with an
\* error, changes nothing and enqueues nothing.
C20_Rearm ==
    [][\A r \in RegenIds :
        LET k == FindByToken("s1") IN
        /\ (regen[r].pc = "idle" /\ RegenStep(r)) =>
              /\ sessions' = sessions /\ queue' = queue
              /\ IF sessions[k].event_count = 0
                 THEN regen'[r].pc = "done" /\ regen'[r].resp = "error400"
                 ELSE regen'[r].pc = "commit"
        /\ (regen[r].pc = "commit" /\ RegenStep(r)) =>
              /\ sessions'[regen[r].sess].status = COMPLETED
              /\ UrlsOf(sessions'[regen[r].sess]) = NoUrls
              /\ queue' = queue
              /\ regen'[r].pc = "enqueue"
        /\ (regen[r].pc = "enqueue" /\ RegenStep(r)) =>
              /\ queue' = Append(queue, regen[r].token)
              /\ sessions' = sessions
              /\ regen'[r].pc = "done" /\ regen'[r].resp = "queued"
      ]_vars

\* C21: in every reachable state a durable Session has a duration exactly when
\* its status is completed, processing, ready or failed; an active Session has
\* none.
C21_DurationIffEnded ==
    \A k \in 1..Len(sessions) :
        (sessions[k].duration # NULL)
            <=> (sessions[k].status \in {COMPLETED, PROCESSING, READY, FAILED})

\* C22: a Session's committed video_url is set only by a render job of that
\* session whose video upload succeeded, and is cleared by every re-arm; every
\* Session in status ready has a video_url and no Session in status failed
\* has one.
C22_VideoUrlOnlyPublished ==
    [][\A k \in 1..Len(sessions') :
        /\ (k <= Len(sessions) /\ ~sessions[k].video_url /\ sessions'[k].video_url) =>
              \E j \in JobIds :
                  /\ JobStep(j) /\ job[j].sess = k
                  /\ job[j].pc = "commit_ready" /\ job[j].video_url
        /\ (\E r \in RegenIds :
                RegenStep(r) /\ regen[r].pc = "commit" /\ regen[r].sess = k) =>
              ~sessions'[k].video_url
        /\ sessions'[k].status = READY => sessions'[k].video_url
        /\ sessions'[k].status = FAILED => ~sessions'[k].video_url
      ]_vars

\* C23: session tokens are unique per project: a finalize that reaches its
\* insert while its own project has no Session for the token creates one,
\* whatever other projects hold, and no finalize returns an error.
C23_TokenUniquePerProject ==
    [][\A f \in FinIds : FinStep(f) =>
        /\ (fin[f].pc = "insert" /\ FindSession(fin[f].token, fin[f].project) = NoRow) =>
              /\ Len(sessions') = Len(sessions) + 1
              /\ sessions'[Len(sessions')].session_id = fin[f].token
              /\ sessions'[Len(sessions')].project_id = fin[f].project
        /\ fin'[f].pc = "done" => fin'[f].resp # "error500"
      ]_vars

\* C24: a finalize request that does not get the lock returns success with
\* video_job_queued = false and changes nothing: no durable row or event, no
\* staging key, no job, and the lock stays with the request that holds it.
C24_LockRefusedNoOp ==
    [][\A f \in FinIds :
        (fin[f].pc = "lock" /\ FinStep(f) /\ lock[fin[f].token]) =>
            /\ fin'[f].pc = "done"
            /\ fin'[f].resp = "being_processed" /\ ~fin'[f].queued
            /\ UNCHANGED <<sessions, events, pending, pendingEvents, queue, lock>>
      ]_vars

\* a request was refused the lock and has returned while the request that
\* holds the lock is still at work on the pending session
C24_Witness ==
    \E f, g \in FinIds :
        /\ FinFinished(f) /\ fin[f].resp = "being_processed" /\ ~fin[f].queued
        /\ fin[g].pc \in {"get_pending", "get_events", "recheck", "insert"}
        /\ lock["s1"] /\ pending["s1"] # NoPending

\* the request has acquired the lock and has not returned yet
PastAcquire(f) ==
    fin[f].pc \notin {"idle", "lock", "legacy_commit", "legacy_enqueue", "done"}

\* C25: a finalize request that acquired the lock returns only through the
\* release of the lock, on every outcome (no pending record, discard,
\* promotion, update of an existing row, duplicate-key fallback, error), and
\* the lock is never held while no request is between acquire and release.
C25_LockAlwaysReleased ==
    [][/\ \A f \in FinIds :
            (PastAcquire(f) /\ FinStep(f) /\ fin'[f].pc = "done") =>
                /\ fin[f].pc = "release"
                /\ ~lock'[fin[f].token]
       /\ \A tok \in Tokens :
            lock'[tok] => \E f \in FinIds : PastAcquire(f)' /\ fin'[f].token = tok
      ]_vars

\* a request hit the duplicate key of another project's Session, returned the
\* error, and the lock is free
C25_Witness ==
    /\ \E f \in FinIds : FinFinished(f) /\ fin[f].resp = "error500"
    /\ \A f \in FinIds : ~PastAcquire(f)
    /\ \A tok \in Tokens : ~lock[tok]
    /\ pending["s1"] # NoPending

IngStep(i) == ing'[i] # ing[i]

\* C26: an ingest request for a token with no durable Session and no pending
\* record is accepted (events_received = number of events sent,
\* session_finalized = false) and stores nothing in the staging store or the
\* durable store.
C26_AcceptWithoutStore ==
    [][\A i \in IngIds :
        /\ (ing[i].pc = "idle" /\ IngStep(i)) =>
              UNCHANGED <<sessions, events, pending, pendingEvents, queue>>
        /\ (ing[i].pc = "get_pending" /\ IngStep(i)
                /\ pending[ing[i].token] = NoPending) =>
              /\ ing'[i].pc = "done"
              /\ ing'[i].resp = "accepted_no_pending"
              /\ ing'[i].received = Len(ing[i].batch) /\ ing'[i].received > 0
              /\ ~ing'[i].finalized
              /\ UNCHANGED <<sessions, events, pending, pendingEvents, queue>>
      ]_vars

\* before any start, two events were sent for the token and accepted; nothing
\* is stored
C26_Witness ==
    /\ \E i \in IngIds :
        /\ ing[i].pc = "done" /\ ing[i].resp = "accepted_no_pending"
        /\ ing[i].received = 2 /\ ~ing[i].finalized
    /\ sessions = <<>> /\ events = <<>>
    /\ pending["s1"] = NoPending /\ pendingEvents["s1"] = <<>>
    /\ starts = 0

C28_NoStartTimeDiscards ==
    [][\A f \in FinIds : FinStep(f) =>
        /\ (fin[f].pc = "get_events" /\ fin[f].pend.timestamp <= 0) =>
              /\ fin'[f].pc = "discard_nostart"
              /\ UNCHANGED <<sessions, events, queue>>
        /\ fin[f].pc = "discard_nostart" =>
              /\ pending'[fin[f].token] = NoPending
              /\ fin'[f].pc = "discard_nostart_events"
              /\ UNCHANGED <<sessions, events, queue>>
        /\ fin[f].pc = "discard_nostart_events" =>
              /\ pendingEvents'[fin[f].token] = <<>>
              /\ fin'[f].pc = "release" /\ fin'[f].resp = "no_start_time"
              /\ ~fin'[f].queued
              /\ UNCHANGED <<sessions, events, queue>>
        /\ (fin[f].pc = "release" /\ fin[f].resp = "no_start_time") =>
              /\ fin'[f].pc = "done" /\ fin'[f].resp = "no_start_time"
              /\ ~fin'[f].queued
              /\ UNCHANGED <<sessions, events, queue>>
      ]_vars

\* a session started without a timestamp buffered events and was finalized:
\* the staging store is empty, nothing is durable, nothing is queued
C28_Witness ==
    /\ \E f \in FinIds : FinFinished(f) /\ fin[f].resp = "no_start_time"
    /\ \E i \in IngIds : ing[i].pc = "done" /\ ing[i].resp = "stored_pending"
    /\ \A f \in FinIds : fin[f].pc \in {"idle", "done"}
    /\ pending["s1"] = NoPending /\ pendingEvents["s1"] = <<>>
    /\ sessions = <<>> /\ events = <<>> /\ queue = <<>>

\* C29: session start writes the pending record of its token, with the
\* 10-minute TTL, and nothing else: no durable Session or event is created or
\* changed, and the buffered events, the lock and the queue stay as they are.
C29_StartOnlyStages ==
    [][starts' # starts =>
        /\ starts' = starts + 1
        /\ \E tok \in Tokens :
            /\ pending'[tok] # NoPending
            /\ pending'[tok].project_id \in tenants
            /\ pending'[tok].timestamp \in StartTimestamps
            /\ pending'[tok].ttl = 10 * 60
            /\ \A other \in Tokens \ {tok} : pending'[other] = pending[other]
        /\ UNCHANGED <<sessions, events, pendingEvents, lock, queue>>
      ]_vars

\* the token was promoted to a durable Session and then started again: the
\* pending record is back and the Session is as the promotion left it
C29_Witness ==
    /\ starts = 2
    /\ pending["s1"] # NoPending /\ pending["s1"].ttl = 10 * 60
    /\ Len(sessions) = 1
    /\ sessions[1].status = COMPLETED /\ sessions[1].duration = 35
    /\ \E f \in FinIds : FinFinished(f) /\ fin[f].resp = "created"
    /\ \A f \in FinIds : fin[f].pc \in {"idle", "done"}

\* the job has passed the eligibility check and has not ended
Rendering(j) ==
    job[j].pc \in {"set_processing", "load_events", "fail_no_events", "render",
                   "fail_render", "upload_video", "upload_thumb", "upload_failed",
                   "final_query", "commit_ready"}

\* C30: of two render jobs for the same session at most one passes the
\* eligibility check: no two jobs are at work on one session at the same time.
C30_NoDoublePickup ==
    \A i, j \in JobIds :
        (i # j /\ Rendering(i) /\ Rendering(j)) => job[i].sess # job[j].sess

\* C31: an ingest request carrying n events for a durable Session in status
\* active appends exactly n events numbered max-observed+1 .. max-observed+n
\* (0 .. n-1 when the log is empty), increases event_count by exactly n and
\* leaves the status unchanged.
C31_IngestAppends ==
    [][\A i \in IngIds :
        LET k == ing[i].sess
            n == Len(ing[i].batch) IN
        /\ (ing[i].pc = "max_sequence" /\ IngStep(i)) =>
              /\ ing'[i].first = MaxSequence(k) + 1
              /\ (EventsOf(k) = <<>> => ing'[i].first = 0)
        /\ (ing[i].pc = "insert" /\ IngStep(i) /\ sessions[k].status = ACTIVE) =>
              /\ Len(events') = Len(events) + n
              /\ \A idx \in 1..n :
                    LET e == events'[Len(events) + idx] IN
                    /\ e.session = k /\ e.event_data = ing[i].batch[idx]
                    /\ e.sequence_number = ing[i].first + idx - 1
              /\ sessions'[k].event_count = sessions[k].event_count + n
              /\ sessions'[k].status = sessions[k].status
      ]_vars

\* C32: a render job is enqueued only after the durable Session it names has
\* been committed: every queued or running generate_session_video job refers
\* to a token for which a durable Session exists, and no job ends with
\* "Session not found".
C32_JobNamesDurableSession ==
    /\ \A q \in 1..Len(queue) : FindByToken(queue[q]) # NoRow
    /\ \A j \in JobIds :
        /\ job[j].pc # "idle" => FindByToken(job[j].token) # NoRow
        /\ job[j].result # "not_found"

\* the promotion has committed the Session and queued its job while the
\* request is still running, and a worker has picked the job up and found the
\* Session
C32_Witness ==
    /\ Len(sessions) = 1 /\ sessions[1].session_id = "s1"
    /\ \E f \in FinIds : fin[f].pc = "release" /\ fin[f].resp = "created" /\ fin[f].queued
    /\ \E j \in JobIds : job[j].pc = "set_processing" /\ job[j].token = "s1"
                            /\ job[j].sess = 1

\* C33: a render job writes a final status only over processing: on every
\* failure path (no events, render failure, upload failure, unexpected
\* exception) as on the success path, a job step that sets the status to
\* failed or ready finds the committed status processing.
C33_FinalStatusOnlyOverProcessing ==
    [][\A j \in JobIds : \A k \in 1..Len(sessions) :
        (/\ JobStep(j)
         /\ sessions'[k].status # sessions[k].status
         /\ sessions'[k].status \in {FAILED, READY}) =>
            sessions[k].status = PROCESSING
      ]_vars

\* C34: the Finalize Lock gives mutual exclusion: at most one finalize request
\* per token is inside the promotion section at any time, and the release of
\* a request never removes a lock that a different request acquired.
C34_LockMutualExclusion ==
    \A f, g \in FinIds :
        (f # g /\ PastAcquire(f) /\ PastAcquire(g)) => fin[f].token # fin[g].token

\* C35: a pending session that keeps receiving event batches stays promotable:
\* while consecutive requests for the token are less than 10 minutes apart,
\* the Pending Session Record is still present when the finalize request reads
\* it, whatever the length of the session.
C35_PendingStaysPromotable ==
    [][\A f \in FinIds :
        (/\ fin[f].pc = "get_pending" /\ FinStep(f)
         /\ starts > 0 /\ sessions = <<>>
         /\ \A g \in FinIds : g # f => fin[g].pc = "idle") =>
            fin'[f].pc = "get_events"
      ]_vars

\* C36: no buffered event is lost at promotion: in every interleaving of an
\* ingest request and a finalize request for the same pending session, the
\* events that the promotion deletes from the staging buffer are the events it
\* inserted into the durable event log.
C36_PromotionKeepsBufferedEvents ==
    [][\A f \in FinIds :
        (/\ fin[f].pc = "cleanup_events" /\ FinStep(f)
         /\ fin[f].resp = "created") =>
            pendingEvents[fin[f].token] = fin[f].pevents
      ]_vars

\* C37: in every reachable state a durable Session's event_count equals the
\* number of events stored for it in the durable event log, and no step
\* decreases event_count, after any sequence of ingest, finalize and sweep
\* operations.
C37_EventCountMatchesLog ==
    /\ [](\A k \in 1..Len(sessions) : sessions[k].event_count = Len(EventsOf(k)))
    /\ [][\A k \in 1..Len(sessions) :
            sessions'[k].event_count >= sessions[k].event_count]_vars

\* C38: every durable Session that finalize commits in status completed with
\* a duration of at least 30 s is eventually picked up by a render job
\* (reaches processing) under a fair worker, including when the enqueue call
\* fails: no such session stays in completed forever.
C38_CompletedEventuallyProcessing ==
    (Len(sessions) >= 1 /\ sessions[1].status = COMPLETED
        /\ sessions[1].duration >= MinDurationSeconds)
    ~> (Len(sessions) >= 1 /\ sessions[1].status = PROCESSING)

\* C39: a pending session is bound to the project that started it: a finalize
\* or ingest request authenticated for another project never promotes,
\* discards or appends to the pending record, and the durable Session created
\* by promotion carries the project reference stored in the pending record.
C39_PendingBoundToProject ==
    [][/\ \A f \in FinIds :
            (/\ FinStep(f) /\ fin[f].pend # NoPending
             /\ <<sessions, pending, pendingEvents>>' # <<sessions, pending, pendingEvents>>)
            => fin[f].pend.project_id = fin[f].project
       /\ \A f \in FinIds :
            (fin[f].pc = "insert" /\ FinStep(f) /\ Len(sessions') = Len(sessions) + 1)
            => sessions'[Len(sessions')].project_id = fin[f].pend.project_id
       /\ \A i \in IngIds :
            (IngStep(i) /\ pendingEvents' # pendingEvents /\ pending[ing[i].token] # NoPending)
            => pending[ing[i].token].project_id = ing[i].project
      ]_vars

\* C40: once a durable Session has left status active its event log is
\* frozen: no ingest step adds an event to a session whose status is
\* completed, processing, ready or failed.
C40_EventLogFrozen ==
    [][\A i \in IngIds :
        (IngStep(i) /\ events' # events) => sessions[ing[i].sess].status = ACTIVE
      ]_vars

====
